---- MODULE Spec2Model ----
(***************************************************************************)
(* A model of earthfile2llb/listener.go: the parse-tree listener that      *)
(* turns the statements of the requested target of an Earthfile into calls *)
(* on the converter (the build-graph builder).                             *)
(*                                                                         *)
(* Strings of the program are sequences of one-character strings, so that  *)
(* prefix tests, splitting and replacing are computed as the code does.    *)
(***************************************************************************)
EXTENDS Naturals, Sequences, FiniteSets

\* ------------------------------------------------------------------ bounds

\* The longest word list a statement of the walk carries.
MaxWords == 3
\* The most key/value pairs a LABEL statement of the walk carries.
MaxLabels == 1
\* The longest array of strings a word list in JSON form holds.
MaxArray == 1
\* The count of headers naming the requested target is kept up to this value.
SeenCap == 2
\* The longest word list of a statement in a file of long statements.
MaxLongWords == 6

\* ------------------------------------------------------------------- texts

\* The target names of the walk: the two reserved names and a user's name.
N_base == <<"b", "a", "s", "e">>
N_secrets == <<"s", "e", "c", "r", "e", "t", "s">>
N_build == <<"b", "u", "i", "l", "d">>
TargetNames == {N_base, N_secrets, N_build}

\* The words of the walk's statements. The words of one file are drawn from
\* one of the vocabularies.
W_push == <<"-", "-", "p", "u", "s", "h">>
W_platform == <<"-", "-", "p", "l", "a", "t", "f", "o", "r", "m", "=", "a", "r", "m">>
W_artifact == <<"+", "t", "/", "a">>
W_plain == <<"x">>
Vocabularies == {{W_push, W_plain}, {W_platform, W_artifact}}

\* The vocabularies of further files: the words of a SAVE ARTIFACT, in
\* statements of up to MaxLongWords words; the sources of a COPY of
\* artifacts; a plain word and a build argument; a platform option whose
\* value is a build argument.
W_as == <<"A", "S">>
W_local == <<"L", "O", "C", "A", "L">>
W_if_exists == <<"-", "-", "i", "f", "-", "e", "x", "i", "s", "t", "s">>
W_artifact2 == <<"+", "u", "/", "b">>
W_variable == <<"$", "P">>
LongVocabularies == {{W_as, W_local}}
FormVocabularies ==
  {{W_if_exists, W_artifact, W_artifact2},
   {W_plain, W_variable},
   {<<"-", "-", "p", "l", "a", "t", "f", "o", "r", "m", "=", "$", "P">>, W_artifact}}

\* The vocabularies of files with further options: the options of a RUN
\* with a mount; a COPY of plain paths with a build argument; a COPY of an
\* artifact and a plain path.
OptionVocabularies ==
  {{W_push, <<"-", "-", "m", "o", "u", "n", "t", "=", "$", "P">>},
   {<<"-", "-", "b", "u", "i", "l", "d", "-", "a", "r", "g", "=", "a">>, W_plain},
   {W_artifact, W_plain}}

\* The vocabulary of files whose words hold a '+' behind a backslash: after
\* a letter, after a build argument, and after another backslash.
EscapeVocabularies ==
  {{<<"a", "\\", "+", "b">>,
    <<"$", "P", "\\", "+", "b">>,
    <<"\\", "\\", "+", "b">>}}

\* The longest word list of a statement of a file, by its vocabulary
WordCap(words) == IF words \in LongVocabularies THEN MaxLongWords ELSE MaxWords

\* The keys and values of the walk's ENV, ARG and LABEL statements.
EnvKeys == {<<"K">>, <<"1", "k">>}
EnvValues == {<<"v">>}

\* The lists of up to n words of a vocabulary.
WordLists(words, n) == UNION {[1..k -> words] : k \in 0..n}

\* The nil error. An error is the text of its message, parameters left out.
nil == "nil"

\* ------------------------------------------------------------ text helpers

\* strings.HasPrefix
HasPrefix(s, p) == Len(s) >= Len(p) /\ SubSeq(s, 1, Len(p)) = p

\* strings.HasSuffix
HasSuffix(s, p) == Len(s) >= Len(p) /\ SubSeq(s, Len(s) - Len(p) + 1, Len(s)) = p

\* strings.TrimSuffix
TrimSuffix(s, p) == IF HasSuffix(s, p) THEN SubSeq(s, 1, Len(s) - Len(p)) ELSE s

\* s[i:] of Go, i counted from 0
From0(s, i) == SubSeq(s, i + 1, Len(s))

\* strings.Index, counted from 1; 0 when p does not occur in s
RECURSIVE IndexFrom(_, _, _)
IndexFrom(s, p, i) ==
  IF i + Len(p) - 1 > Len(s) THEN 0
  ELSE IF SubSeq(s, i, i + Len(p) - 1) = p THEN i
  ELSE IndexFrom(s, p, i + 1)

Index(s, p) == IndexFrom(s, p, 1)

\* strings.ReplaceAll, for a non-empty old
RECURSIVE ReplaceAll(_, _, _)
ReplaceAll(s, old, new) ==
  LET i == Index(s, old) IN
  IF i = 0 THEN s
  ELSE SubSeq(s, 1, i - 1) \o new \o ReplaceAll(From0(s, i + Len(old) - 1), old, new)

\* strings.Join of the texts of a list
RECURSIVE Join(_, _)
Join(list, sep) ==
  IF list = <<>> THEN <<>>
  ELSE IF Len(list) = 1 THEN list[1]
  ELSE list[1] \o sep \o Join(Tail(list), sep)

\* The list with f applied to each element
MapSeq(list, f(_)) == [i \in 1..Len(list) |-> f(list[i])]

\* ----------------------------------------------------------- option decoder

\* The decimal digits
Digits == {"0", "1", "2", "3", "4", "5", "6", "7", "8", "9"}

\* strconv.ParseBool: the texts it accepts as true and as false
TrueTexts == {<<"1">>, <<"t">>, <<"T">>, <<"t", "r", "u", "e">>,
              <<"T", "R", "U", "E">>, <<"T", "r", "u", "e">>}
FalseTexts == {<<"0">>, <<"f">>, <<"F">>, <<"f", "a", "l", "s", "e">>,
               <<"F", "A", "L", "S", "E">>, <<"F", "a", "l", "s", "e">>}

\* strconv.Atoi accepts an optionally signed run of digits
IntOK(v) ==
  LET d == IF v # <<>> /\ v[1] \in {"+", "-"} THEN Tail(v) ELSE v IN
  d # <<>> /\ \A i \in 1..Len(d) : d[i] \in Digits

\* time.ParseDuration, for the single-unit forms: digits and a unit
DurationOK(v) ==
  /\ Len(v) >= 2
  /\ v[Len(v)] \in {"s", "m", "h"}
  /\ \A i \in 1..(Len(v) - 1) : v[i] \in Digits

\* Whether flag.Value.Set accepts the value for a flag of the type
ValueOK(type, v) ==
  CASE type = "bool" -> v \in TrueTexts \cup FalseTexts
    [] type = "int" -> IntOK(v)
    [] type = "duration" -> DurationOK(v)
    [] OTHER -> TRUE

\* The type a flag set declares for a name, "none" when it declares none
FlagType(formal, name) ==
  IF \E f \in formal : f[1] = name
  THEN (CHOOSE f \in formal : f[1] = name)[2]
  ELSE "none"

\* The place of the first "=" of a flag's name after its first character, 0 if none
RECURSIVE EqualsAt(_, _)
EqualsAt(name, i) ==
  IF i > Len(name) THEN 0
  ELSE IF name[i] = "=" THEN i
  ELSE EqualsAt(name, i + 1)

\* flag.FlagSet.Parse: the flags set, in order, as <<name, value>>, the number
\* of words consumed, and whether decoding failed. The positional arguments
\* are the words after the consumed ones.
RECURSIVE ParseFrom(_, _, _, _)
ParseFrom(words, formal, n, set) ==
  LET stop(k) == [failed |-> FALSE, set |-> set, used |-> k]
      fail == [failed |-> TRUE, set |-> set, used |-> n]
  IN
  IF n >= Len(words) THEN stop(n)
  ELSE
    LET s == words[n + 1] IN
    IF Len(s) < 2 \/ s[1] # "-" THEN stop(n)
    ELSE IF s[2] = "-" /\ Len(s) = 2 THEN stop(n + 1)
    ELSE
      LET full == IF s[2] = "-" THEN From0(s, 2) ELSE From0(s, 1) IN
      IF Len(full) = 0 \/ full[1] \in {"-", "="} THEN fail
      ELSE
        LET eq == EqualsAt(full, 2)
            name == IF eq = 0 THEN full ELSE SubSeq(full, 1, eq - 1)
            inline == IF eq = 0 THEN <<>> ELSE From0(full, eq)
            type == FlagType(formal, name)
        IN
        IF type = "none" THEN fail
        ELSE IF type = "bool" THEN
          IF eq = 0
          THEN ParseFrom(words, formal, n + 1, Append(set, <<name, <<"t", "r", "u", "e">>>>))
          ELSE IF ValueOK(type, inline)
          THEN ParseFrom(words, formal, n + 1, Append(set, <<name, inline>>))
          ELSE fail
        ELSE IF eq # 0 THEN
          IF ValueOK(type, inline)
          THEN ParseFrom(words, formal, n + 1, Append(set, <<name, inline>>))
          ELSE fail
        ELSE IF n + 1 >= Len(words) THEN fail
        ELSE IF ValueOK(type, words[n + 2])
        THEN ParseFrom(words, formal, n + 2, Append(set, <<name, words[n + 2]>>))
        ELSE fail

Parse(words, formal) == ParseFrom(words, formal, 0, <<>>)

\* fs.Args() after a parse
Args(words, p) == From0(words, p.used)

\* The values a parse gave a flag, in order (a StringSliceFlag's Args)
RECURSIVE SliceFlag(_, _)
SliceFlag(set, name) ==
  IF set = <<>> THEN <<>>
  ELSE IF set[1][1] = name THEN <<set[1][2]>> \o SliceFlag(Tail(set), name)
  ELSE SliceFlag(Tail(set), name)

\* The value of a string flag: the last one set, or the default
StringFlag(set, name, default) ==
  LET vs == SliceFlag(set, name) IN
  IF vs = <<>> THEN default ELSE vs[Len(vs)]

\* The value of a boolean flag, false by default
BoolFlag(set, name) ==
  LET vs == SliceFlag(set, name) IN
  vs # <<>> /\ vs[Len(vs)] \in TrueTexts

\* The names of the options the statements declare
F_push == <<"p", "u", "s", "h">>
F_privileged == <<"p", "r", "i", "v", "i", "l", "e", "g", "e", "d">>
F_entrypoint == <<"e", "n", "t", "r", "y", "p", "o", "i", "n", "t">>
F_with_docker == <<"w", "i", "t", "h", "-", "d", "o", "c", "k", "e", "r">>
F_ssh == <<"s", "s", "h">>
F_secret == <<"s", "e", "c", "r", "e", "t">>
F_mount == <<"m", "o", "u", "n", "t">>
F_build_arg == <<"b", "u", "i", "l", "d", "-", "a", "r", "g">>
F_platform == <<"p", "l", "a", "t", "f", "o", "r", "m">>
F_target == <<"t", "a", "r", "g", "e", "t">>
F_f == <<"f">>
F_from == <<"f", "r", "o", "m">>
F_dir == <<"d", "i", "r">>
F_chown == <<"c", "h", "o", "w", "n">>
F_keep_ts == <<"k", "e", "e", "p", "-", "t", "s">>
F_keep_own == <<"k", "e", "e", "p", "-", "o", "w", "n">>
F_if_exists == <<"i", "f", "-", "e", "x", "i", "s", "t", "s">>
F_cache_hint == <<"c", "a", "c", "h", "e", "-", "h", "i", "n", "t">>
F_insecure == <<"i", "n", "s", "e", "c", "u", "r", "e">>
F_cache_from == <<"c", "a", "c", "h", "e", "-", "f", "r", "o", "m">>
F_branch == <<"b", "r", "a", "n", "c", "h">>
F_interval == <<"i", "n", "t", "e", "r", "v", "a", "l">>
F_timeout == <<"t", "i", "m", "e", "o", "u", "t">>
F_start_period == <<"s", "t", "a", "r", "t", "-", "p", "e", "r", "i", "o", "d">>
F_retries == <<"r", "e", "t", "r", "i", "e", "s">>
F_compose == <<"c", "o", "m", "p", "o", "s", "e">>
F_service == <<"s", "e", "r", "v", "i", "c", "e">>
F_load == <<"l", "o", "a", "d">>
F_pull == <<"p", "u", "l", "l">>

\* The flag set each statement declares: <<name, type>>
FromFlags == {<<F_build_arg, "slice">>, <<F_platform, "string">>}
FromDockerfileFlags ==
  {<<F_build_arg, "slice">>, <<F_platform, "string">>, <<F_target, "string">>,
   <<F_f, "string">>}
CopyFlags ==
  {<<F_from, "string">>, <<F_dir, "bool">>, <<F_chown, "string">>,
   <<F_keep_ts, "bool">>, <<F_keep_own, "bool">>, <<F_if_exists, "bool">>,
   <<F_platform, "string">>, <<F_build_arg, "slice">>}
RunFlags ==
  {<<F_push, "bool">>, <<F_privileged, "bool">>, <<F_entrypoint, "bool">>,
   <<F_with_docker, "bool">>, <<F_ssh, "bool">>, <<F_secret, "slice">>,
   <<F_mount, "slice">>}
SaveArtifactFlags ==
  {<<F_keep_ts, "bool">>, <<F_keep_own, "bool">>, <<F_if_exists, "bool">>}
SaveImageFlags ==
  {<<F_push, "bool">>, <<F_cache_hint, "bool">>, <<F_insecure, "bool">>,
   <<F_cache_from, "slice">>}
BuildFlags == {<<F_platform, "slice">>, <<F_build_arg, "slice">>}
GitCloneFlags == {<<F_branch, "string">>, <<F_keep_ts, "bool">>}
HealthcheckFlags ==
  {<<F_interval, "duration">>, <<F_timeout, "duration">>,
   <<F_start_period, "duration">>, <<F_retries, "int">>}
WithDockerFlags ==
  {<<F_compose, "slice">>, <<F_service, "slice">>, <<F_load, "slice">>,
   <<F_platform, "string">>, <<F_build_arg, "slice">>, <<F_pull, "slice">>}

\* ------------------------------------------------- escaping and expansion

BackslashPlus == <<"\\", "+">>
TwoBackslashPlus == <<"\\", "\\", "+">>
Plus == <<"+">>

escapeSlashPlus(str) == ReplaceAll(str, BackslashPlus, TwoBackslashPlus)

unescapeSlashPlus(str) == ReplaceAll(str, BackslashPlus, Plus)

\* The build arguments the converter knows, by their one-letter names
ArgNames == {"P"}
ArgValue(n) == <<"a", "r", "m">>

\* converter.ExpandArgs: shell-style substitution. A backslash quotes the
\* character after it and is dropped; $N is replaced by the value of N.
RECURSIVE ExpandArgs(_)
ExpandArgs(word) ==
  IF word = <<>> THEN <<>>
  ELSE IF word[1] = "\\" /\ Len(word) >= 2
  THEN <<word[2]>> \o ExpandArgs(From0(word, 2))
  ELSE IF word[1] = "$" /\ Len(word) >= 2 /\ word[2] \in ArgNames
  THEN ArgValue(word[2]) \o ExpandArgs(From0(word, 2))
  ELSE <<word[1]>> \o ExpandArgs(Tail(word))

expandArgs(word, keepPlusEscape) ==
  LET ret == ExpandArgs(escapeSlashPlus(word)) IN
  IF keepPlusEscape THEN ret ELSE unescapeSlashPlus(ret)

expandRef(word) == expandArgs(word, TRUE)
expandLit(word) == expandArgs(word, FALSE)

\* replaceEscape: a backslash, a line break and the blanks after it are removed
RECURSIVE DropBlanks(_)
DropBlanks(s) ==
  IF s # <<>> /\ s[1] \in {"\t", " "} THEN DropBlanks(Tail(s)) ELSE s

RECURSIVE replaceEscape(_)
replaceEscape(str) ==
  IF str = <<>> THEN <<>>
  ELSE IF HasPrefix(str, <<"\\", "\n">>) THEN replaceEscape(DropBlanks(From0(str, 2)))
  ELSE IF HasPrefix(str, <<"\\", "\r", "\n">>) THEN replaceEscape(DropBlanks(From0(str, 3)))
  ELSE <<str[1]>> \o replaceEscape(Tail(str))

\* checkEnvVarName: ^[a-zA-Z_]+[a-zA-Z0-9_]*$
Letters ==
  {"a", "b", "c", "d", "e", "f", "g", "h", "i", "j", "k", "l", "m", "n", "o",
   "p", "q", "r", "s", "t", "u", "v", "w", "x", "y", "z", "A", "B", "C", "D",
   "E", "F", "G", "H", "I", "J", "K", "L", "M", "N", "O", "P", "Q", "R", "S",
   "T", "U", "V", "W", "X", "Y", "Z", "_"}

checkEnvVarName(str) ==
  /\ str # <<>>
  /\ str[1] \in Letters
  /\ \A i \in 1..Len(str) : str[i] \in Letters \cup Digits

\* parseLoad: <<image name, target>> of a --load value
parseLoad(loadStr) ==
  LET i == Index(loadStr, <<"=">>) IN
  IF i = 0 THEN <<<<>>, loadStr>>
  ELSE <<SubSeq(loadStr, 1, i - 1), From0(loadStr, i)>>

\* ------------------------------------------------ consumed pure functions

\* platforms.Parse: the platform strings it accepts
KnownPlatforms == {<<"a", "r", "m">>, <<"l", "i", "n", "u", "x", "/", "a", "m", "d", "6", "4">>}
PlatformOK(s) == s \in KnownPlatforms

\* A *specs.Platform: <<>> for nil, <<p>> for a pointer to p
PlatformOf(s) == IF s = <<>> THEN <<>> ELSE <<s>>

\* domain.ParseArtifact: a reference is <target>+<name>/<path>, with one
\* unescaped "+" and a "/" after it
RECURSIVE PlusPlaces(_, _)
PlusPlaces(s, i) ==
  IF i > Len(s) THEN {}
  ELSE IF s[i] = "\\" THEN PlusPlaces(s, i + 2)
  ELSE IF s[i] = "+" THEN {i} \cup PlusPlaces(s, i + 1)
  ELSE PlusPlaces(s, i + 1)

ArtifactOK(s) ==
  LET ps == PlusPlaces(s, 1) IN
  /\ Cardinality(ps) = 1
  /\ LET p == CHOOSE q \in ps : TRUE
         slash == Index(From0(s, p), <<"/">>)
     IN slash > 1 /\ p + slash < Len(s)

\* Artifact.String of a parsed reference: target, "+", name, "/", path
ArtifactString(s) ==
  LET p == CHOOSE q \in PlusPlaces(s, 1) : TRUE
      rest == From0(s, p)
      slash == Index(rest, <<"/">>)
  IN SubSeq(s, 1, p - 1) \o Plus \o SubSeq(rest, 1, slash - 1)
       \o <<"/">> \o From0(rest, slash)

\* ------------------------------------------------------------------- state

VARIABLES
  executeTarget,    \* listener.executeTarget
  currentTarget,    \* listener.currentTarget
  targetFound,      \* listener.targetFound
  pushOnlyAllowed,  \* listener.pushOnlyAllowed
  envArgKey,        \* listener.envArgKey
  envArgValue,      \* listener.envArgValue
  labelKeys,        \* listener.labelKeys
  labelValues,      \* listener.labelValues
  withDocker,       \* listener.withDocker: <<>> for nil, <<opt>> for a pointer
  withDockerRan,    \* listener.withDockerRan
  execMode,         \* listener.execMode
  stmtWords,        \* listener.stmtWords
  err,              \* listener.err
  calls,            \* the converter calls the latest callback made, in order
  vocabulary,       \* the words the statements of the file are made of
  pc,               \* where the tree walk stands
  shape,            \* the form of the statement the walk is in
  result,           \* what Err() returned once the walk was over
  execHeaders,      \* how many headers named the requested target, up to SeenCap
  called,           \* whether the walk has made a converter call yet
  exited            \* the kind of the statement whose exit callback, not
                    \* skipped, was the latest step; "none" after any other step

vars ==
  <<executeTarget, currentTarget, targetFound, pushOnlyAllowed, envArgKey,
    envArgValue, labelKeys, labelValues, withDocker, withDockerRan, execMode,
    stmtWords, err, calls, vocabulary, pc, shape, result, execHeaders, called,
    exited>>

\* The messages of the errors the claims tell apart
ErrDeclaredTwice == "target is declared twice"
ErrReservedName == "target name cannot be base or secrets"
ErrImplicitFrom == "apply implicit FROM +base"
ErrNotDefined == "target not defined"
ErrPushOnly == "no non-push commands allowed after a --push"
ErrNoMatchingEnd == "no matching END found for WITH DOCKER"
ErrEndArgs == "END does not take any arguments"
ErrEndWithoutWith == "END can only be used to end a WITH DOCKER clause"
ErrEndWithoutRun == "no RUN command found in WITH DOCKER"

\* A call on the converter, and whether it returned without an error
Call(op, args, ok) == [op |-> op, args |-> args, ok |-> ok]

\* An implicit FROM that names the target itself
ImplicitFrom_Self(ok) == Call("From", <<executeTarget, <<>>, <<>>>>, ok)

\* The implicit FROM +base of a target header
ImplicitFrom(ok) == Call("From", <<<<"+", "b", "a", "s", "e">>, <<>>, <<>>>>, ok)

\* The calls of a loop that returns after its first call
UpToFirstFailure_OnlyFirst(cs) == IF cs = <<>> THEN <<>> ELSE <<cs[1]>>

\* The calls of a loop that returns at the first call that fails
RECURSIVE UpToFirstFailure(_)
UpToFirstFailure(cs) ==
  IF cs = <<>> THEN <<>>
  ELSE IF ~cs[1].ok THEN <<cs[1]>>
  ELSE <<cs[1]>> \o UpToFirstFailure(Tail(cs))

AllOK(cs) == \A i \in 1..Len(cs) : cs[i].ok

\* newListener, for a file whose words are of one of the vocabularies
InitWith(vocabularies) ==
  /\ executeTarget \in TargetNames
  /\ currentTarget = N_base
  /\ targetFound = (executeTarget = N_base)
  /\ pushOnlyAllowed = FALSE
  /\ envArgKey = <<>>
  /\ envArgValue = <<>>
  /\ labelKeys = <<>>
  /\ labelValues = <<>>
  /\ withDocker = <<>>
  /\ withDockerRan = FALSE
  /\ execMode = FALSE
  /\ stmtWords = <<>>
  /\ err = nil
  /\ calls = <<>>
  /\ vocabulary \in vocabularies
  /\ pc = "start"
  /\ shape = "none"
  /\ result = "none"
  /\ execHeaders = 0
  /\ called = FALSE
  /\ exited = "none"

Init == InitWith(Vocabularies)

\* listener.Err without the target-not-found case
Err_ErrOnly == err

\* listener.Err
Err ==
  IF err # nil THEN err
  ELSE IF ~targetFound THEN ErrNotDefined
  ELSE nil

\* listener.shouldSkip without its test of the target
ShouldSkip_ErrOnly(e, target) == e # nil

\* listener.shouldSkip without its test of the error
ShouldSkip_TargetOnly(e, target) == target # executeTarget

\* listener.shouldSkip, on an error and a current target
ShouldSkip(e, target) == e # nil \/ target # executeTarget

shouldSkip == ShouldSkip(err, currentTarget)

\* What a statement callback leaves of the listener: the error, the words,
\* the push-only flag and the open block are as given, the rest is unchanged.
Effect(e, cs, words, push, wd, ran) ==
  /\ err' = e
  /\ calls' = cs
  /\ called' = (called \/ cs # <<>>)
  /\ stmtWords' = words
  /\ pushOnlyAllowed' = push
  /\ withDocker' = wd
  /\ withDockerRan' = ran
  /\ UNCHANGED <<currentTarget, targetFound, envArgKey, envArgValue, labelKeys,
                 labelValues, execMode>>

\* The callback returns at once, or after a step that changes nothing
Skip == Effect(err, <<>>, stmtWords, pushOnlyAllowed, withDocker, withDockerRan)

\* The callback latches an error and returns
Latch(e) == Effect(e, <<>>, stmtWords, pushOnlyAllowed, withDocker, withDockerRan)

\* The callback made the calls cs, none of which failed
Made(cs) == Effect(err, cs, stmtWords, pushOnlyAllowed, withDocker, withDockerRan)

\* The callback made one call that can fail: an error is latched if it did
Tried(op, args, e) ==
  \E ok \in BOOLEAN :
    Effect(IF ok THEN err ELSE e, <<Call(op, args, ok)>>, stmtWords,
           pushOnlyAllowed, withDocker, withDockerRan)

\* ------------------------------------------------------- targets and lists

\* The text of a target header: the name and a colon
HeaderTexts == {n \o <<":">> : n \in TargetNames}

Min(a, b) == IF a < b THEN a ELSE b

\* A header that never counts as a second declaration
IsDuplicate_Never(target) == FALSE

\* The header names the requested target a second time
IsDuplicate(target) == target = executeTarget /\ targetFound

\* The header declares a reserved name
IsReserved(target) == target = N_base \/ target = N_secrets

EnterTargetHeader(text) ==
  LET target == TrimSuffix(text, <<":">>) IN
  /\ pc \in {"start", "header", "top"}
  /\ pc' = "header"
  /\ currentTarget' = target
  /\ execHeaders' =
       IF target = executeTarget THEN Min(execHeaders + 1, SeenCap) ELSE execHeaders
  /\ IF IsDuplicate(target)
     THEN /\ err' = ErrDeclaredTwice
          /\ calls' = <<>>
          /\ UNCHANGED targetFound
     ELSE /\ targetFound' = (targetFound \/ target = executeTarget)
          /\ IF ShouldSkip(err, target)
             THEN calls' = <<>> /\ UNCHANGED err
             ELSE IF IsReserved(target)
             THEN calls' = <<>> /\ err' = ErrReservedName
             ELSE \E ok \in BOOLEAN :
                    /\ calls' = <<ImplicitFrom(ok)>>
                    /\ err' = IF ok THEN err ELSE ErrImplicitFrom
  /\ called' = (called \/ calls' # <<>>)
  /\ exited' = "none"
  /\ UNCHANGED <<executeTarget, vocabulary, pushOnlyAllowed, envArgKey,
                 envArgValue, labelKeys, labelValues, withDocker, withDockerRan,
                 execMode, stmtWords, shape, result>>

\* EnterStmts without its shouldSkip test
EnterStmts_AlwaysResets ==
  /\ pc \in {"start", "header"}
  /\ pc' = "stmts0"
  /\ Effect(err, <<>>, stmtWords, FALSE, withDocker, withDockerRan)
  /\ exited' = "none"
  /\ UNCHANGED <<executeTarget, vocabulary, shape, result, execHeaders>>

EnterStmts ==
  /\ pc \in {"start", "header"}
  /\ pc' = "stmts0"
  /\ IF shouldSkip
     THEN Skip
     ELSE Effect(err, <<>>, stmtWords, FALSE, withDocker, withDockerRan)
  /\ exited' = "none"
  /\ UNCHANGED <<executeTarget, vocabulary, shape, result, execHeaders>>

\* ExitStmts without the test that a block is still open
ExitStmts_NoBlockTest ==
  /\ pc = "stmts"
  /\ pc' = "top"
  /\ Skip
  /\ exited' = "none"
  /\ UNCHANGED <<executeTarget, vocabulary, shape, result, execHeaders>>

ExitStmts ==
  /\ pc = "stmts"
  /\ pc' = "top"
  /\ IF shouldSkip THEN Skip
     ELSE IF withDocker # <<>> THEN Latch(ErrNoMatchingEnd)
     ELSE Skip
  /\ exited' = "none"
  /\ UNCHANGED <<executeTarget, vocabulary, shape, result, execHeaders>>

\* The forms of a statement: a word list, a key and a value, label pairs
Shapes == {"words", "envarg", "label"}

EnterStmt(sh) ==
  /\ pc \in {"stmts0", "stmts"}
  /\ pc' = "stmt"
  /\ shape' = sh
  /\ calls' = <<>>
  /\ exited' = "none"
  /\ IF shouldSkip
     THEN UNCHANGED <<stmtWords, envArgKey, envArgValue, labelKeys, labelValues,
                      execMode>>
     ELSE /\ stmtWords' = <<>>
          /\ envArgKey' = <<>>
          /\ envArgValue' = <<>>
          /\ labelKeys' = <<>>
          /\ labelValues' = <<>>
          /\ execMode' = FALSE
  /\ UNCHANGED <<executeTarget, vocabulary, currentTarget, targetFound,
                 pushOnlyAllowed, withDocker, withDockerRan, err, result,
                 execHeaders, called>>

\* What a callback that fills the statement's fields leaves alone
FieldFrame ==
  /\ calls' = <<>>
  /\ exited' = "none"
  /\ UNCHANGED <<executeTarget, vocabulary, currentTarget, targetFound,
                 pushOnlyAllowed, withDocker, withDockerRan, shape, result,
                 execHeaders, called>>

EnterStmtWord(text) ==
  /\ pc = "stmt" /\ shape = "words"
  /\ shouldSkip \/ Len(stmtWords) < WordCap(vocabulary)
  /\ stmtWords' = IF shouldSkip THEN stmtWords ELSE Append(stmtWords, replaceEscape(text))
  /\ UNCHANGED <<pc, err, envArgKey, envArgValue, labelKeys, labelValues, execMode>>
  /\ FieldFrame

\* What json.Unmarshal makes of the text of the word list: no array of
\* strings, or the strings of the array
JSONResults ==
  {[ok |-> FALSE, words |-> <<>>]}
    \cup {[ok |-> TRUE, words |-> ws] : ws \in WordLists(vocabulary, MaxArray)}

ExitStmtWordsMaybeJSON(parsed) ==
  /\ pc = "stmt" /\ shape = "words"
  /\ shouldSkip \/ stmtWords # <<>>
  /\ pc' = "exit"
  /\ IF ~shouldSkip /\ parsed.ok
     THEN stmtWords' = parsed.words /\ execMode' = TRUE
     ELSE UNCHANGED <<stmtWords, execMode>>
  /\ UNCHANGED <<err, envArgKey, envArgValue, labelKeys, labelValues>>
  /\ FieldFrame

EnterEnvArgKey(text) ==
  /\ pc = "stmt" /\ shape = "envarg"
  /\ pc' = "envkey"
  /\ IF shouldSkip
     THEN UNCHANGED <<envArgKey, err>>
     ELSE /\ envArgKey' = text
          /\ err' = IF checkEnvVarName(text) THEN err ELSE "invalid env key definition"
  /\ UNCHANGED <<stmtWords, envArgValue, labelKeys, labelValues, execMode>>
  /\ FieldFrame

EnterEnvArgValue(text) ==
  /\ pc = "envkey" /\ shape = "envarg"
  /\ pc' = "exit"
  /\ envArgValue' = IF shouldSkip THEN envArgValue ELSE text
  /\ UNCHANGED <<err, stmtWords, envArgKey, labelKeys, labelValues, execMode>>
  /\ FieldFrame

EnterLabelKey(text) ==
  /\ pc = "stmt" /\ shape = "label"
  /\ shouldSkip \/ Len(labelKeys) < MaxLabels
  /\ pc' = "labelkey"
  /\ labelKeys' = IF shouldSkip THEN labelKeys ELSE Append(labelKeys, text)
  /\ UNCHANGED <<err, stmtWords, envArgKey, envArgValue, labelValues, execMode>>
  /\ FieldFrame

EnterLabelValue(text) ==
  /\ pc = "labelkey" /\ shape = "label"
  /\ pc' = "stmt"
  /\ labelValues' = IF shouldSkip THEN labelValues ELSE Append(labelValues, text)
  /\ UNCHANGED <<err, stmtWords, envArgKey, envArgValue, labelKeys, execMode>>
  /\ FieldFrame

\* The walk is over and the caller asks Err() for the outcome
Finish ==
  /\ pc \in {"start", "header", "top"}
  /\ pc' = "done"
  /\ result' = Err
  /\ calls' = <<>>
  /\ exited' = "none"
  /\ UNCHANGED <<executeTarget, vocabulary, currentTarget, targetFound,
                 pushOnlyAllowed, envArgKey, envArgValue, labelKeys, labelValues,
                 withDocker, withDockerRan, execMode, stmtWords, err, shape,
                 execHeaders, called>>

\* The end of a statement of a kind: the walk is back in the statement list
ExitFrame(kind, sh, pcs) ==
  /\ pc \in pcs
  /\ shape = sh
  /\ pc' = "stmts"
  /\ shape' = "none"
  /\ exited' = IF shouldSkip THEN "none" ELSE kind
  /\ UNCHANGED <<executeTarget, vocabulary, result, execHeaders>>

ExitWords(kind) == ExitFrame(kind, "words", {"stmt", "exit"})


\* -------------------------------------------------------------- statements

\* The platform option of a statement: its expanded text, and whether
\* platforms.Parse rejects it
PlatformStr(set) == expandLit(StringFlag(set, F_platform, <<>>))
PlatformBad(set) == PlatformStr(set) # <<>> /\ ~PlatformOK(PlatformStr(set))

\* The build-arg options of a statement, expanded
BuildArgs(set) == MapSeq(SliceFlag(set, F_build_arg), expandRef)

ExitFromStmt ==
  /\ ExitWords("From")
  /\ IF shouldSkip THEN Skip
     ELSE IF pushOnlyAllowed THEN Latch(ErrPushOnly)
     ELSE
       LET p == Parse(stmtWords, FromFlags)
           args == Args(stmtWords, p)
       IN
       IF p.failed THEN Latch("invalid FROM arguments")
       ELSE IF Len(args) # 1 THEN
         IF Len(args) = 3 /\ args[2] = <<"A", "S">>
         THEN Latch("AS not supported, use earthly targets instead")
         ELSE Latch("invalid number of arguments for FROM")
       ELSE IF PlatformBad(p.set) THEN Latch("parse platform")
       ELSE Tried("From",
                  <<expandRef(args[1]), PlatformOf(PlatformStr(p.set)),
                    BuildArgs(p.set)>>,
                  "apply FROM")

ExitFromDockerfileStmt ==
  /\ ExitWords("FromDockerfile")
  /\ IF shouldSkip THEN Skip
     ELSE IF pushOnlyAllowed THEN Latch(ErrPushOnly)
     ELSE
       LET p == Parse(stmtWords, FromDockerfileFlags)
           args == Args(stmtWords, p)
       IN
       IF p.failed THEN Latch("invalid FROM DOCKERFILE arguments")
       ELSE IF Len(args) # 1 THEN Latch("invalid number of arguments for FROM DOCKERFILE")
       ELSE IF PlatformBad(p.set) THEN Latch("parse platform")
       ELSE Tried("FromDockerfile",
                  <<expandLit(args[1]),
                    expandLit(StringFlag(p.set, F_f, <<>>)),
                    expandLit(StringFlag(p.set, F_target, <<>>)),
                    PlatformOf(PlatformStr(p.set)), BuildArgs(p.set)>>,
                  "from dockerfile")

\* A source of a COPY as the loop over the sources leaves it
CopySrc(src) ==
  IF ArtifactOK(expandRef(src)) THEN ArtifactString(expandRef(src)) ELSE expandLit(src)

\* ExitCopyStmt without the test for sources of both kinds
ExitCopyStmt_NoMixTest ==
  /\ ExitWords("Copy")
  /\ IF shouldSkip THEN Skip
     ELSE IF pushOnlyAllowed THEN Latch(ErrPushOnly)
     ELSE
       LET p == Parse(stmtWords, CopyFlags)
           args == Args(stmtWords, p)
           n == Len(args)
           raw == SubSeq(args, 1, n - 1)
           srcs == MapSeq(raw, CopySrc)
           dest == expandLit(args[n])
           allClassical == \A i \in 1..(n - 1) : ~ArtifactOK(expandRef(raw[i]))
           allArtifacts == \A i \in 1..(n - 1) : ArtifactOK(expandRef(raw[i]))
           words == SubSeq(stmtWords, 1, p.used) \o srcs \o <<args[n]>>
           copy(src, ok) ==
             Call("CopyArtifact",
                  <<src, dest, PlatformOf(PlatformStr(p.set)), BuildArgs(p.set),
                    BoolFlag(p.set, F_dir), BoolFlag(p.set, F_keep_ts),
                    BoolFlag(p.set, F_keep_own),
                    expandLit(StringFlag(p.set, F_chown, <<>>)),
                    BoolFlag(p.set, F_if_exists)>>,
                  ok)
       IN
       IF p.failed THEN Latch("invalid COPY arguments")
       ELSE IF n < 2 THEN Latch("not enough COPY arguments")
       ELSE IF StringFlag(p.set, F_from, <<>>) # <<>>
       THEN Latch("COPY --from not implemented. Use COPY artifacts form instead")
       ELSE IF PlatformBad(p.set) THEN Latch("parse platform")
       ELSE IF allArtifacts
       THEN \E oks \in [1..(n - 1) -> BOOLEAN] :
              LET made == UpToFirstFailure([i \in 1..(n - 1) |-> copy(srcs[i], oks[i])])
              IN Effect(IF AllOK(made) THEN err ELSE "copy artifact", made,
                        words, pushOnlyAllowed, withDocker, withDockerRan)
       ELSE IF BuildArgs(p.set) # <<>>
       THEN Effect("build args not supported for non +artifact arguments case",
                   <<>>, words, pushOnlyAllowed, withDocker, withDockerRan)
       ELSE Effect(err,
                   <<Call("CopyClassical",
                          <<srcs, dest, BoolFlag(p.set, F_dir), BoolFlag(p.set, F_keep_ts),
                            BoolFlag(p.set, F_keep_own),
                            expandLit(StringFlag(p.set, F_chown, <<>>))>>,
                          TRUE)>>,
                   words, pushOnlyAllowed, withDocker, withDockerRan)

ExitCopyStmt ==
  /\ ExitWords("Copy")
  /\ IF shouldSkip THEN Skip
     ELSE IF pushOnlyAllowed THEN Latch(ErrPushOnly)
     ELSE
       LET p == Parse(stmtWords, CopyFlags)
           args == Args(stmtWords, p)
           n == Len(args)
           raw == SubSeq(args, 1, n - 1)
           srcs == MapSeq(raw, CopySrc)
           dest == expandLit(args[n])
           allClassical == \A i \in 1..(n - 1) : ~ArtifactOK(expandRef(raw[i]))
           allArtifacts == \A i \in 1..(n - 1) : ArtifactOK(expandRef(raw[i]))
           \* the sources are rewritten in place, in the slice of the words
           words == SubSeq(stmtWords, 1, p.used) \o srcs \o <<args[n]>>
           copy(src, ok) ==
             Call("CopyArtifact",
                  <<src, dest, PlatformOf(PlatformStr(p.set)), BuildArgs(p.set),
                    BoolFlag(p.set, F_dir), BoolFlag(p.set, F_keep_ts),
                    BoolFlag(p.set, F_keep_own),
                    expandLit(StringFlag(p.set, F_chown, <<>>)),
                    BoolFlag(p.set, F_if_exists)>>,
                  ok)
       IN
       IF p.failed THEN Latch("invalid COPY arguments")
       ELSE IF n < 2 THEN Latch("not enough COPY arguments")
       ELSE IF StringFlag(p.set, F_from, <<>>) # <<>>
       THEN Latch("COPY --from not implemented. Use COPY artifacts form instead")
       ELSE IF PlatformBad(p.set) THEN Latch("parse platform")
       ELSE IF ~allClassical /\ ~allArtifacts
       THEN Effect("combining artifacts and build context arguments in a single COPY command is not allowed",
                   <<>>, words, pushOnlyAllowed, withDocker, withDockerRan)
       ELSE IF allArtifacts
       THEN \E oks \in [1..(n - 1) -> BOOLEAN] :
              \* one call for each source, until a call fails
              LET made == UpToFirstFailure([i \in 1..(n - 1) |-> copy(srcs[i], oks[i])])
              IN Effect(IF AllOK(made) THEN err ELSE "copy artifact", made,
                        words, pushOnlyAllowed, withDocker, withDockerRan)
       ELSE IF BuildArgs(p.set) # <<>>
       THEN Effect("build args not supported for non +artifact arguments case",
                   <<>>, words, pushOnlyAllowed, withDocker, withDockerRan)
       ELSE Effect(err,
                   <<Call("CopyClassical",
                          <<srcs, dest, BoolFlag(p.set, F_dir), BoolFlag(p.set, F_keep_ts),
                            BoolFlag(p.set, F_keep_own),
                            expandLit(StringFlag(p.set, F_chown, <<>>))>>,
                          TRUE)>>,
                   words, pushOnlyAllowed, withDocker, withDockerRan)

\* A RUN inside a block, without the test that the block's RUN has run
RunInBlock_NoOnceTest(args, mounts, secrets, withShell, withEntrypoint, pushFlag) ==
  IF pushFlag THEN Latch("RUN --push not allowed in WITH DOCKER")
  ELSE
    LET opt == [withDocker[1] EXCEPT !.Mounts = mounts, !.Secrets = secrets,
                                     !.WithShell = withShell,
                                     !.WithEntrypoint = withEntrypoint]
    IN \E ok \in BOOLEAN :
         Effect(IF ok THEN err ELSE "with docker run",
                <<Call("WithDockerRun", <<args, opt>>, ok)>>,
                stmtWords, pushOnlyAllowed, <<opt>>, TRUE)

\* A RUN inside a block, without the test of the push option
RunInBlock_NoPushTest(args, mounts, secrets, withShell, withEntrypoint, pushFlag) ==
  IF withDockerRan THEN Latch("only one RUN command allowed in WITH DOCKER")
  ELSE
    LET opt == [withDocker[1] EXCEPT !.Mounts = mounts, !.Secrets = secrets,
                                     !.WithShell = withShell,
                                     !.WithEntrypoint = withEntrypoint]
    IN \E ok \in BOOLEAN :
         Effect(IF ok THEN err ELSE "with docker run",
                <<Call("WithDockerRun", <<args, opt>>, ok)>>,
                stmtWords, pushOnlyAllowed, <<opt>>, TRUE)

\* A RUN inside an open WITH DOCKER block
RunInBlock(args, mounts, secrets, withShell, withEntrypoint, pushFlag) ==
  IF pushFlag THEN Latch("RUN --push not allowed in WITH DOCKER")
  ELSE IF withDockerRan THEN Latch("only one RUN command allowed in WITH DOCKER")
  ELSE
    LET opt == [withDocker[1] EXCEPT !.Mounts = mounts, !.Secrets = secrets,
                                     !.WithShell = withShell,
                                     !.WithEntrypoint = withEntrypoint]
    IN \E ok \in BOOLEAN :
         Effect(IF ok THEN err ELSE "with docker run",
                <<Call("WithDockerRun", <<args, opt>>, ok)>>,
                stmtWords, pushOnlyAllowed, <<opt>>, TRUE)

\* ExitRunStmt marking the block's RUN as run outside a block too
ExitRunStmt_MarksRan ==
  /\ ExitWords("Run")
  /\ IF shouldSkip THEN Skip
     ELSE IF Len(stmtWords) < 1 THEN Latch("not enough arguments for RUN")
     ELSE
       LET p == Parse(stmtWords, RunFlags)
           args == Args(stmtWords, p)
           pushFlag == BoolFlag(p.set, F_push)
           withDockerFlag == BoolFlag(p.set, F_with_docker)
           privileged == BoolFlag(p.set, F_privileged) \/ withDockerFlag
           withEntrypoint == BoolFlag(p.set, F_entrypoint)
           withShell == ~execMode
           secrets == MapSeq(SliceFlag(p.set, F_secret), expandRef)
           mounts == MapSeq(SliceFlag(p.set, F_mount), expandLit)
       IN
       IF p.failed THEN Latch("invalid RUN arguments")
       ELSE IF ~pushFlag /\ pushOnlyAllowed THEN Latch(ErrPushOnly)
       ELSE IF withDocker = <<>>
       THEN \E ok \in BOOLEAN :
              Effect(IF ok THEN err ELSE "run",
                     <<Call("Run",
                            <<args, mounts, secrets, privileged, withEntrypoint,
                              withDockerFlag, withShell, pushFlag,
                              BoolFlag(p.set, F_ssh)>>,
                            ok)>>,
                     stmtWords,
                     IF ok /\ pushFlag THEN TRUE ELSE pushOnlyAllowed,
                     withDocker, TRUE)
       ELSE RunInBlock(args, mounts, secrets, withShell, withEntrypoint, pushFlag)

ExitRunStmt ==
  /\ ExitWords("Run")
  /\ IF shouldSkip THEN Skip
     ELSE IF Len(stmtWords) < 1 THEN Latch("not enough arguments for RUN")
     ELSE
       LET p == Parse(stmtWords, RunFlags)
           args == Args(stmtWords, p)
           pushFlag == BoolFlag(p.set, F_push)
           withDockerFlag == BoolFlag(p.set, F_with_docker)
           privileged == BoolFlag(p.set, F_privileged) \/ withDockerFlag
           withEntrypoint == BoolFlag(p.set, F_entrypoint)
           withShell == ~execMode
           secrets == MapSeq(SliceFlag(p.set, F_secret), expandRef)
           mounts == MapSeq(SliceFlag(p.set, F_mount), expandLit)
       IN
       IF p.failed THEN Latch("invalid RUN arguments")
       ELSE IF ~pushFlag /\ pushOnlyAllowed THEN Latch(ErrPushOnly)
       ELSE IF withDocker = <<>>
       THEN \E ok \in BOOLEAN :
              Effect(IF ok THEN err ELSE "run",
                     <<Call("Run",
                            <<args, mounts, secrets, privileged, withEntrypoint,
                              withDockerFlag, withShell, pushFlag,
                              BoolFlag(p.set, F_ssh)>>,
                            ok)>>,
                     stmtWords,
                     IF ok /\ pushFlag THEN TRUE ELSE pushOnlyAllowed,
                     withDocker, withDockerRan)
       ELSE RunInBlock(args, mounts, secrets, withShell, withEntrypoint, pushFlag)

\* The AS LOCAL clause in lower case
AsLocal_Lower == <<"a", "s", " ", "l", "o", "c", "a", "l">>

AsLocal == <<"A", "S", " ", "L", "O", "C", "A", "L">>

ExitSaveArtifact ==
  /\ ExitWords("SaveArtifact")
  /\ IF shouldSkip THEN Skip
     ELSE IF pushOnlyAllowed THEN Latch(ErrPushOnly)
     ELSE
       LET p == Parse(stmtWords, SaveArtifactFlags)
           args == Args(stmtWords, p)
           n == Len(args)
           asLocal == Join(SubSeq(args, n - 2, n - 1), <<" ">>) = AsLocal
           saveAsLocalTo == IF n >= 4 THEN args[n] ELSE <<>>
           saveTo == IF n = 5 \/ n = 2 THEN args[2] ELSE <<".", "/">>
       IN
       IF p.failed THEN Latch("invalid SAVE arguments")
       ELSE IF n = 0 THEN Latch("no arguments provided to the SAVE ARTIFACT command")
       ELSE IF n > 5 THEN Latch("too many arguments provided to the SAVE ARTIFACT command")
       ELSE IF (n >= 4 /\ ~asLocal) \/ n = 3
       THEN Latch("invalid arguments for SAVE ARTIFACT command")
       ELSE Tried("SaveArtifact",
                  <<expandLit(args[1]), expandLit(saveTo), expandLit(saveAsLocalTo),
                    BoolFlag(p.set, F_keep_ts), BoolFlag(p.set, F_keep_own),
                    BoolFlag(p.set, F_if_exists)>>,
                  "apply SAVE ARTIFACT")

\* No SAVE IMAGE is left without effect
SaveImageNoOp_Never(imageNames, cacheHint, cacheFrom) == FALSE

\* A SAVE IMAGE that names no image and no cache is left without effect
SaveImageNoOp(imageNames, cacheHint, cacheFrom) ==
  Len(imageNames) = 0 /\ ~cacheHint /\ Len(cacheFrom) = 0

\* ExitSaveImage turning push-only mode on whether or not the call succeeded
ExitSaveImage_PushOnFailure ==
  /\ ExitWords("SaveImage")
  /\ IF shouldSkip THEN Skip
     ELSE
       LET p == Parse(stmtWords, SaveImageFlags)
           args == Args(stmtWords, p)
           pushFlag == BoolFlag(p.set, F_push)
           cacheHint == BoolFlag(p.set, F_cache_hint)
           cacheFrom == MapSeq(SliceFlag(p.set, F_cache_from), expandLit)
           imageNames == MapSeq(args, expandLit)
           words == SubSeq(stmtWords, 1, p.used) \o imageNames
       IN
       IF p.failed THEN Latch("invalid SAVE IMAGE arguments")
       ELSE IF ~pushFlag /\ pushOnlyAllowed THEN Latch(ErrPushOnly)
       ELSE IF pushFlag /\ Len(args) = 0
       THEN Latch("invalid number of arguments for SAVE IMAGE --push")
       ELSE IF SaveImageNoOp(imageNames, cacheHint, cacheFrom)
       THEN Effect(err, <<>>, words, pushOnlyAllowed, withDocker, withDockerRan)
       ELSE \E ok \in BOOLEAN :
              Effect(IF ok THEN err ELSE "save image",
                     <<Call("SaveImage",
                            <<imageNames, pushFlag, BoolFlag(p.set, F_insecure),
                              cacheHint, cacheFrom>>,
                            ok)>>,
                     words,
                     IF pushFlag THEN TRUE ELSE pushOnlyAllowed,
                     withDocker, withDockerRan)

ExitSaveImage ==
  /\ ExitWords("SaveImage")
  /\ IF shouldSkip THEN Skip
     ELSE
       LET p == Parse(stmtWords, SaveImageFlags)
           args == Args(stmtWords, p)
           pushFlag == BoolFlag(p.set, F_push)
           cacheHint == BoolFlag(p.set, F_cache_hint)
           cacheFrom == MapSeq(SliceFlag(p.set, F_cache_from), expandLit)
           imageNames == MapSeq(args, expandLit)
           \* the image names are expanded in place, in the slice of the words
           words == SubSeq(stmtWords, 1, p.used) \o imageNames
       IN
       IF p.failed THEN Latch("invalid SAVE IMAGE arguments")
       ELSE IF ~pushFlag /\ pushOnlyAllowed THEN Latch(ErrPushOnly)
       ELSE IF pushFlag /\ Len(args) = 0
       THEN Latch("invalid number of arguments for SAVE IMAGE --push")
       ELSE IF SaveImageNoOp(imageNames, cacheHint, cacheFrom)
       THEN Effect(err, <<>>, words, pushOnlyAllowed, withDocker, withDockerRan)
       ELSE \E ok \in BOOLEAN :
              Effect(IF ok THEN err ELSE "save image",
                     <<Call("SaveImage",
                            <<imageNames, pushFlag, BoolFlag(p.set, F_insecure),
                              cacheHint, cacheFrom>>,
                            ok)>>,
                     words,
                     IF ok /\ pushFlag THEN TRUE ELSE pushOnlyAllowed,
                     withDocker, withDockerRan)

\* ExitBuildStmt without the unspecified platform of an empty platform list
ExitBuildStmt_NoDefault ==
  /\ ExitWords("Build")
  /\ IF shouldSkip THEN Skip
     ELSE IF pushOnlyAllowed THEN Latch(ErrPushOnly)
     ELSE
       LET p == Parse(stmtWords, BuildFlags)
           args == Args(stmtWords, p)
           raw == SliceFlag(p.set, F_platform)
           platforms == MapSeq(raw, PlatformOf)
           build(platform, ok) ==
             Call("Build", <<expandRef(args[1]), platform, BuildArgs(p.set)>>, ok)
       IN
       IF p.failed THEN Latch("invalid BUILD arguments")
       ELSE IF Len(args) # 1 THEN Latch("invalid number of arguments for BUILD")
       ELSE IF \E i \in 1..Len(raw) : ~PlatformOK(raw[i]) THEN Latch("parse platform")
       ELSE \E oks \in [1..Len(platforms) -> BOOLEAN] :
              LET made == UpToFirstFailure(
                            [i \in 1..Len(platforms) |-> build(platforms[i], oks[i])])
              IN Effect(IF AllOK(made) THEN err ELSE "apply BUILD", made,
                        stmtWords, pushOnlyAllowed, withDocker, withDockerRan)

ExitBuildStmt ==
  /\ ExitWords("Build")
  /\ IF shouldSkip THEN Skip
     ELSE IF pushOnlyAllowed THEN Latch(ErrPushOnly)
     ELSE
       LET p == Parse(stmtWords, BuildFlags)
           args == Args(stmtWords, p)
           raw == SliceFlag(p.set, F_platform)
           \* each platform is parsed from the option as given, not as expanded
           platforms == IF raw = <<>> THEN <<<<>>>> ELSE MapSeq(raw, PlatformOf)
           build(platform, ok) ==
             Call("Build", <<expandRef(args[1]), platform, BuildArgs(p.set)>>, ok)
       IN
       IF p.failed THEN Latch("invalid BUILD arguments")
       ELSE IF Len(args) # 1 THEN Latch("invalid number of arguments for BUILD")
       ELSE IF \E i \in 1..Len(raw) : ~PlatformOK(raw[i]) THEN Latch("parse platform")
       ELSE \E oks \in [1..Len(platforms) -> BOOLEAN] :
              \* one call for each platform, until a call fails
              LET made == UpToFirstFailure(
                            [i \in 1..Len(platforms) |-> build(platforms[i], oks[i])])
              IN Effect(IF AllOK(made) THEN err ELSE "apply BUILD", made,
                        stmtWords, pushOnlyAllowed, withDocker, withDockerRan)

\* A statement of exactly one word, handed to the converter expanded
OneWord(op, e) ==
  IF shouldSkip THEN Skip
  ELSE IF pushOnlyAllowed THEN Latch(ErrPushOnly)
  ELSE IF Len(stmtWords) # 1 THEN Latch(e)
  ELSE Made(<<Call(op, <<expandLit(stmtWords[1])>>, TRUE)>>)

ExitWorkdirStmt ==
  /\ ExitWords("Workdir")
  /\ OneWord("Workdir", "invalid number of arguments for WORKDIR")

ExitUserStmt ==
  /\ ExitWords("User")
  /\ OneWord("User", "invalid number of arguments for USER")

\* CMD and ENTRYPOINT: in exec mode the words are expanded, in place
ShellOrExec(op) ==
  IF shouldSkip THEN Skip
  ELSE IF pushOnlyAllowed THEN Latch(ErrPushOnly)
  ELSE
    LET withShell == ~execMode
        words == IF withShell THEN stmtWords ELSE MapSeq(stmtWords, expandLit)
    IN Effect(err, <<Call(op, <<words, withShell>>, TRUE)>>, words, pushOnlyAllowed,
              withDocker, withDockerRan)

ExitCmdStmt ==
  /\ ExitWords("Cmd")
  /\ ShellOrExec("Cmd")

ExitEntrypointStmt ==
  /\ ExitWords("Entrypoint")
  /\ ShellOrExec("Entrypoint")

\* EXPOSE and VOLUME: at least one word, each expanded in place
SomeWords(op, e) ==
  IF shouldSkip THEN Skip
  ELSE IF pushOnlyAllowed THEN Latch(ErrPushOnly)
  ELSE IF Len(stmtWords) = 0 THEN Latch(e)
  ELSE
    LET words == MapSeq(stmtWords, expandLit)
    IN Effect(err, <<Call(op, <<words>>, TRUE)>>, words, pushOnlyAllowed, withDocker,
              withDockerRan)

ExitExposeStmt ==
  /\ ExitWords("Expose")
  /\ SomeWords("Expose", "no arguments provided to the EXPOSE command")

ExitVolumeStmt ==
  /\ ExitWords("Volume")
  /\ SomeWords("Volume", "no arguments provided to the VOLUME command")

ExitEnvStmt ==
  /\ ExitFrame("Env", "envarg", {"envkey", "exit"})
  /\ IF shouldSkip THEN Skip
     ELSE IF pushOnlyAllowed THEN Latch(ErrPushOnly)
     ELSE Made(<<Call("Env", <<envArgKey, expandLit(envArgValue)>>, TRUE)>>)

ExitArgStmt ==
  /\ ExitFrame("Arg", "envarg", {"envkey", "exit"})
  /\ IF shouldSkip THEN Skip
     ELSE IF pushOnlyAllowed THEN Latch(ErrPushOnly)
     ELSE Made(<<Call("Arg", <<envArgKey, expandRef(envArgValue),
                               currentTarget = N_base>>, TRUE)>>)

\* The map a LABEL builds: a later pair replaces an earlier one of the same key
LabelMap ==
  LET key(i) == expandLit(labelKeys[i])
      last(k) == CHOOSE i \in 1..Len(labelKeys) :
                   key(i) = k /\ \A j \in (i + 1)..Len(labelKeys) : key(j) # k
  IN {<<key(i), expandLit(labelValues[last(key(i))])>> : i \in 1..Len(labelKeys)}

ExitLabelStmt ==
  /\ ExitFrame("Label", "label", {"stmt"})
  /\ IF shouldSkip THEN Skip
     ELSE IF pushOnlyAllowed THEN Latch(ErrPushOnly)
     ELSE IF Len(labelKeys) = 0 THEN Latch("no labels provided in LABEL command")
     ELSE IF Len(labelKeys) # Len(labelValues)
     THEN Latch("label keys and values do not match")
     ELSE Made(<<Call("Label", <<LabelMap>>, TRUE)>>)

ExitGitCloneStmt ==
  /\ ExitWords("GitClone")
  /\ IF shouldSkip THEN Skip
     ELSE IF pushOnlyAllowed THEN Latch(ErrPushOnly)
     ELSE
       LET p == Parse(stmtWords, GitCloneFlags)
           args == Args(stmtWords, p)
       IN
       IF p.failed THEN Latch("invalid GIT CLONE arguments")
       ELSE IF Len(args) # 2 THEN Latch("invalid number of arguments for GIT CLONE")
       ELSE Tried("GitClone",
                  <<expandLit(args[1]), expandLit(StringFlag(p.set, F_branch, <<>>)),
                    expandLit(args[2]), BoolFlag(p.set, F_keep_ts)>>,
                  "git clone")

\* A statement the listener refuses whatever its words
Refuse(e) == IF shouldSkip THEN Skip ELSE Latch(e)

ExitDockerLoadStmt ==
  /\ ExitWords("DockerLoad")
  /\ Refuse("DOCKER LOAD is obsolete. Please use WITH DOCKER --load")

ExitDockerPullStmt ==
  /\ ExitWords("DockerPull")
  /\ Refuse("DOCKER PULL is obsolete. Please use WITH DOCKER --pull")

ExitHealthcheckStmt ==
  /\ ExitWords("Healthcheck")
  /\ IF shouldSkip THEN Skip
     ELSE IF pushOnlyAllowed THEN Latch(ErrPushOnly)
     ELSE
       LET p == Parse(stmtWords, HealthcheckFlags)
           args == Args(stmtWords, p)
           n == Len(args)
           isNone == args[1] = <<"N", "O", "N", "E">>
           cmdArgs == IF isNone THEN <<>> ELSE MapSeq(Tail(args), expandLit)
           \* the command is expanded in place, in the slice of the words
           words == IF isNone THEN stmtWords
                    ELSE SubSeq(stmtWords, 1, p.used + 1) \o cmdArgs
       IN
       IF p.failed THEN Latch("invalid HEALTHCHECK arguments")
       ELSE IF n = 0 THEN Latch("invalid number of arguments for HEALTHCHECK")
       ELSE IF isNone /\ n # 1 THEN Latch("invalid arguments for HEALTHCHECK")
       ELSE IF args[1] = <<"C", "M", "D">> /\ n = 1
       THEN Latch("invalid number of arguments for HEALTHCHECK CMD")
       ELSE IF ~isNone /\ args[1] # <<"C", "M", "D">> THEN
         IF HasPrefix(args[1], <<"[">>)
         THEN Latch("exec form not yet supported for HEALTHCHECK CMD")
         ELSE Latch("invalid arguments for HEALTHCHECK")
       ELSE Effect(err,
                   <<Call("Healthcheck",
                          <<isNone, cmdArgs,
                            StringFlag(p.set, F_interval, <<"3", "0", "s">>),
                            StringFlag(p.set, F_timeout, <<"3", "0", "s">>),
                            StringFlag(p.set, F_start_period, <<"0", "s">>),
                            StringFlag(p.set, F_retries, <<"3">>)>>,
                          TRUE)>>,
                   words, pushOnlyAllowed, withDocker, withDockerRan)

\* The WithDockerOpt a WITH DOCKER statement opens
WithDockerOpt(set) ==
  LET platform == PlatformOf(PlatformStr(set))
      pulls == MapSeq(SliceFlag(set, F_pull), expandLit)
      loads == MapSeq(SliceFlag(set, F_load), expandRef)
  IN [ComposeFiles |-> MapSeq(SliceFlag(set, F_compose), expandLit),
      ComposeServices |-> MapSeq(SliceFlag(set, F_service), expandLit),
      Pulls |-> [i \in 1..Len(pulls) |->
                   [ImageName |-> pulls[i], Platform |-> platform]],
      Loads |-> [i \in 1..Len(loads) |->
                   [Target |-> parseLoad(loads[i])[2],
                    ImageName |-> parseLoad(loads[i])[1],
                    Platform |-> platform,
                    BuildArgs |-> BuildArgs(set)]],
      Mounts |-> <<>>,
      Secrets |-> <<>>,
      WithShell |-> FALSE,
      WithEntrypoint |-> FALSE]

\* ExitWithDockerStmt without the test that a block is open already
ExitWithDockerStmt_NoNestTest ==
  /\ ExitWords("WithDocker")
  /\ IF shouldSkip THEN Skip
     ELSE IF pushOnlyAllowed THEN Latch(ErrPushOnly)
     ELSE
       LET p == Parse(stmtWords, WithDockerFlags)
           args == Args(stmtWords, p)
       IN
       IF p.failed THEN Latch("invalid WITH DOCKER arguments")
       ELSE IF Len(args) # 0 THEN Latch("invalid WITH DOCKER arguments")
       ELSE IF PlatformBad(p.set) THEN Latch("parse platform")
       ELSE Effect(err, <<>>, stmtWords, pushOnlyAllowed, <<WithDockerOpt(p.set)>>,
                   withDockerRan)

ExitWithDockerStmt ==
  /\ ExitWords("WithDocker")
  /\ IF shouldSkip THEN Skip
     ELSE IF pushOnlyAllowed THEN Latch(ErrPushOnly)
     ELSE IF withDocker # <<>> THEN Latch("cannot use WITH DOCKER within WITH DOCKER")
     ELSE
       LET p == Parse(stmtWords, WithDockerFlags)
           args == Args(stmtWords, p)
       IN
       IF p.failed THEN Latch("invalid WITH DOCKER arguments")
       ELSE IF Len(args) # 0 THEN Latch("invalid WITH DOCKER arguments")
       ELSE IF PlatformBad(p.set) THEN Latch("parse platform")
       ELSE Effect(err, <<>>, stmtWords, pushOnlyAllowed, <<WithDockerOpt(p.set)>>,
                   withDockerRan)

\* ExitEndStmt closing the block without clearing withDockerRan
ExitEndStmt_KeepsRan ==
  /\ ExitWords("End")
  /\ IF shouldSkip THEN Skip
     ELSE IF Len(stmtWords) # 0 THEN Latch(ErrEndArgs)
     ELSE IF withDocker = <<>> THEN Latch(ErrEndWithoutWith)
     ELSE IF ~withDockerRan THEN Latch(ErrEndWithoutRun)
     ELSE Effect(err, <<>>, stmtWords, pushOnlyAllowed, <<>>, withDockerRan)

ExitEndStmt ==
  /\ ExitWords("End")
  /\ IF shouldSkip THEN Skip
     ELSE IF Len(stmtWords) # 0 THEN Latch(ErrEndArgs)
     ELSE IF withDocker = <<>> THEN Latch(ErrEndWithoutWith)
     ELSE IF ~withDockerRan THEN Latch(ErrEndWithoutRun)
     ELSE Effect(err, <<>>, stmtWords, pushOnlyAllowed, <<>>, FALSE)

ExitAddStmt ==
  /\ ExitWords("Add")
  /\ Refuse("command ADD not yet supported")

ExitStopsignalStmt ==
  /\ ExitWords("Stopsignal")
  /\ Refuse("command STOPSIGNAL not yet supported")

ExitOnbuildStmt ==
  /\ ExitWords("Onbuild")
  /\ Refuse("command ONBUILD not supported")

ExitShellStmt ==
  /\ ExitWords("Shell")
  /\ Refuse("command SHELL not yet supported")

ExitGenericCommandStmt ==
  /\ ExitWords("GenericCommand")
  /\ Refuse("invalid command")

\* ----------------------------------------------------------- specification

\* The exit callback of a statement, of whichever kind
ExitStmtOfKind ==
  \/ ExitFromStmt
  \/ ExitFromDockerfileStmt
  \/ ExitCopyStmt
  \/ ExitRunStmt
  \/ ExitSaveArtifact
  \/ ExitSaveImage
  \/ ExitBuildStmt
  \/ ExitWorkdirStmt
  \/ ExitUserStmt
  \/ ExitCmdStmt
  \/ ExitEntrypointStmt
  \/ ExitExposeStmt
  \/ ExitVolumeStmt
  \/ ExitEnvStmt
  \/ ExitArgStmt
  \/ ExitLabelStmt
  \/ ExitGitCloneStmt
  \/ ExitDockerLoadStmt
  \/ ExitDockerPullStmt
  \/ ExitHealthcheckStmt
  \/ ExitWithDockerStmt
  \/ ExitEndStmt
  \/ ExitAddStmt
  \/ ExitStopsignalStmt
  \/ ExitOnbuildStmt
  \/ ExitShellStmt
  \/ ExitGenericCommandStmt

Next ==
  \/ \E text \in HeaderTexts : EnterTargetHeader(text)
  \/ EnterStmts
  \/ ExitStmts
  \/ \E sh \in Shapes : EnterStmt(sh)
  \/ \E text \in vocabulary : EnterStmtWord(text)
  \/ \E parsed \in JSONResults : ExitStmtWordsMaybeJSON(parsed)
  \/ \E text \in EnvKeys : EnterEnvArgKey(text)
  \/ \E text \in EnvValues : EnterEnvArgValue(text)
  \/ \E text \in EnvKeys : EnterLabelKey(text)
  \/ \E text \in EnvValues : EnterLabelValue(text)
  \/ ExitStmtOfKind
  \/ Finish

Spec == Init /\ [][Next]_vars

\* The walks over files of artifact copies, plain words and build arguments
InitForms == InitWith(FormVocabularies)

SpecForms == InitForms /\ [][Next]_vars

\* The walks over files of long statements
InitLong == InitWith(LongVocabularies)

SpecLong == InitLong /\ [][Next]_vars

\* The walks over files of words with escaped '+' characters
SpecEscape == InitWith(EscapeVocabularies) /\ [][Next]_vars

\* The walks over files with further options
SpecOptions == InitWith(OptionVocabularies) /\ [][Next]_vars

\* The walks over files of statements with two different platforms
SpecPlatforms ==
  InitWith({{W_platform, <<"-", "-", "p", "l", "a", "t", "f", "o", "r", "m", "=", "l", "i", "n", "u", "x", "/", "a", "m", "d", "6", "4">>, W_artifact}}) /\ [][Next]_vars

\* ------------------------------------------------------------------ claims

\* C1: once an error is latched no later callback replaces it, so that Err()
\* reports the first error of the walk.
C1_FirstErrorKept == [][err # nil => err' = err]_vars

\* C2: a callback of a statement in a target that is not the requested one
\* makes no converter call, latches no error and leaves the outcome of the
\* walk as it was.
C2_OtherTargetsInert ==
  [][(currentTarget # executeTarget
        /\ pc \in {"stmts0", "stmts", "stmt", "envkey", "labelkey", "exit"})
       => (calls' = <<>> /\ err' = err /\ targetFound' = targetFound)]_vars

\* C2: a statement of another target has been walked after the requested one
C2_Witness ==
  /\ executeTarget = N_build
  /\ currentTarget = N_secrets
  /\ targetFound
  /\ pc = "stmts"
  /\ err = nil

\* C3: with an error latched a callback makes no converter call; of the calls
\* of one callback only the last can have failed, and a failed call latches
\* an error.
C3_NoCallAfterError ==
  [][/\ err # nil => calls' = <<>>
     /\ \A i \in 1..(Len(calls') - 1) : calls'[i].ok
     /\ (\E i \in 1..Len(calls') : ~calls'[i].ok) => err' # nil]_vars

\* C3: the first of the two calls of a COPY failed and the second was not made
C3_Witness ==
  /\ err = "copy artifact"
  /\ Len(stmtWords) = 3
  /\ Len(calls) = 1
  /\ ~calls[1].ok

\* C4: with push-only mode on in the requested target, a statement of any
\* kind that does not carry the push option latches an error and makes no
\* converter call.
C4_NonPushRefused ==
  [][(/\ pushOnlyAllowed
      /\ exited' # "none"
      /\ ~(/\ exited' \in {"Run", "SaveImage"}
           /\ BoolFlag(Parse(stmtWords,
                             IF exited' = "Run" THEN RunFlags
                             ELSE SaveImageFlags).set, F_push)))
       => (err' # nil /\ calls' = <<>>)]_vars

\* C5, as the claim has it: right after the start of the statement list of a
\* target, whichever it is, push-only mode is off.
C5_AlwaysCleared == pc = "stmts0" => ~pushOnlyAllowed

\* C5: right after the start of the statement list of the requested target,
\* with no error latched, push-only mode is off; the start of a statement
\* list that is skipped leaves the flag as it was.
C5_ClearedUnlessSkipped ==
  /\ [](pc = "stmts0" /\ ~shouldSkip => ~pushOnlyAllowed)
  /\ [][(pc' = "stmts0" /\ pc # "stmts0" /\ shouldSkip)
          => pushOnlyAllowed' = pushOnlyAllowed]_vars

\* C5: the statement list of another target starts with push-only mode on
C5_Witness ==
  /\ pc = "stmts0"
  /\ currentTarget # executeTarget
  /\ err = nil
  /\ pushOnlyAllowed

\* C6: a header that declares base or secrets latches an error, whichever
\* target was requested.
C6_ReservedAlwaysFails ==
  [][(pc' = "header" /\ currentTarget' \in {N_base, N_secrets})
       => err' # nil]_vars

\* C7: when two headers name the requested target the walk ends with the
\* declared-twice error, and from the second header on no callback makes a
\* converter call.
C7_DeclaredTwice ==
  /\ []((pc = "done" /\ execHeaders >= 2) => result = ErrDeclaredTwice)
  /\ [][execHeaders' >= 2 => calls' = <<>>]_vars

\* C7: a walk over two declarations of the requested target is over
C7_Witness ==
  /\ executeTarget = N_build
  /\ execHeaders >= 2
  /\ pc = "done"
  /\ result = ErrDeclaredTwice

\* C8: for a requested target other than base, as long as no header has
\* named it no error is latched and no converter call is made, and a walk that
\* ends so reports target-not-found; once a header has named it,
\* target-not-found is not what Err() reports.
C8_NotFound ==
  executeTarget # N_base =>
    /\ execHeaders = 0 =>
         /\ err = nil
         /\ calls = <<>>
         /\ ~called
         /\ Err = ErrNotDefined
         /\ pc = "done" => result = ErrNotDefined
    /\ execHeaders > 0 =>
         /\ Err # ErrNotDefined
         /\ pc = "done" => result # ErrNotDefined

\* C8: a walk over a file that declares another target only is over
C8_Witness ==
  /\ executeTarget = N_build
  /\ currentTarget = N_secrets
  /\ execHeaders = 0
  /\ pc = "done"
  /\ result = ErrNotDefined

\* C9: for a requested target other than base, the first converter call of
\* the walk is From("+base", nil, nil), made by the header of that target;
\* if it fails an error is latched, and no statement runs or makes a call.
C9_ImplicitFromFirst ==
  /\ [][(executeTarget # N_base /\ ~called /\ calls' # <<>>)
          => /\ pc' = "header"
             /\ currentTarget' = executeTarget
             /\ Len(calls') = 1
             /\ calls'[1].op = "From"
             /\ calls'[1].args = <<<<"+", "b", "a", "s", "e">>, <<>>, <<>>>>
             /\ ~calls'[1].ok => err' = ErrImplicitFrom]_vars
  /\ [](err = ErrImplicitFrom
          => /\ exited = "none"
             /\ \A i \in 1..Len(calls) : calls[i].op = "From" /\ ~calls[i].ok)

\* C9: the implicit FROM of the requested target failed
C9_Witness ==
  /\ executeTarget = N_build
  /\ pc = "header"
  /\ Len(calls) = 1
  /\ ~calls[1].ok
  /\ err = ErrImplicitFrom

\* C10: an END without words, not skipped, succeeds exactly when a block is
\* open and its RUN has run, and then leaves no block open and no RUN seen;
\* with no block open it latches the END-without-WITH error, and with a block
\* open but no RUN the END-without-RUN error.
C10_End ==
  [][(exited' = "End" /\ stmtWords = <<>>)
       => /\ err' = nil <=> (withDocker # <<>> /\ withDockerRan)
          /\ err' = nil => (withDocker' = <<>> /\ ~withDockerRan')
          /\ withDocker = <<>> => err' = ErrEndWithoutWith
          /\ (withDocker # <<>> /\ ~withDockerRan) => err' = ErrEndWithoutRun
          /\ calls' = <<>>]_vars

\* C10: an END has closed a block
C10_Witness ==
  /\ exited = "End"
  /\ err = nil
  /\ withDocker = <<>>
  /\ ~withDockerRan

\* C11: a RUN that arrives, not skipped, in a block whose RUN has run makes
\* no converter call and latches an error, which is the only-one-RUN error
\* when the RUN passes the tests that come first (it has words, its options
\* decode, it carries no push option and push-only mode is off); the
\* run-in-block operation is called only in a block whose RUN has not run,
\* and a block's RUN counts as run until the block is closed.
C11_OneRunPerBlock ==
  [][/\ (exited' = "Run" /\ withDocker # <<>> /\ withDockerRan)
          => /\ calls' = <<>>
             /\ err' # nil
             /\ (/\ stmtWords # <<>>
                 /\ ~Parse(stmtWords, RunFlags).failed
                 /\ ~BoolFlag(Parse(stmtWords, RunFlags).set, F_push)
                 /\ ~pushOnlyAllowed)
                  => err' = "only one RUN command allowed in WITH DOCKER"
     /\ (\E i \in 1..Len(calls') : calls'[i].op = "WithDockerRun")
          => (Len(calls') = 1 /\ withDocker # <<>> /\ ~withDockerRan /\ withDockerRan')
     /\ (withDockerRan /\ ~withDockerRan') => withDocker' = <<>>]_vars

\* C11: a second RUN in a block has been refused
C11_Witness ==
  /\ exited = "Run"
  /\ withDocker # <<>>
  /\ withDockerRan
  /\ calls = <<>>
  /\ err = "only one RUN command allowed in WITH DOCKER"

\* C12: a WITH DOCKER that arrives, not skipped, while a block is open
\* latches an error, the nested-block error when push-only mode is off, and
\* leaves the open block and the mark of its RUN as they were.
C12_OneBlock ==
  [][(exited' = "WithDocker" /\ withDocker # <<>>)
       => /\ err' # nil
          /\ ~pushOnlyAllowed => err' = "cannot use WITH DOCKER within WITH DOCKER"
          /\ withDocker' = withDocker
          /\ withDockerRan' = withDockerRan
          /\ calls' = <<>>]_vars

\* C12: a WITH DOCKER inside a block whose RUN has run has been refused
C12_Witness ==
  /\ exited = "WithDocker"
  /\ withDocker # <<>>
  /\ withDockerRan
  /\ err = "cannot use WITH DOCKER within WITH DOCKER"

\* C13: when the statement list of the requested target ends, with no error
\* latched, while a block is open, the no-matching-END error is latched; a
\* walk that is over with a block left open does not report success.
C13_Unterminated ==
  /\ [][(pc = "stmts" /\ pc' = "top" /\ ~shouldSkip /\ withDocker # <<>>)
          => (err' = ErrNoMatchingEnd /\ calls' = <<>>)]_vars
  /\ []((pc \in {"top", "header", "done"} /\ withDocker # <<>>) => err # nil)
  /\ []((pc = "done" /\ withDocker # <<>>) => result # nil)

\* C13: a walk that left a block open after its RUN is over
C13_Witness ==
  /\ pc = "done"
  /\ withDocker # <<>>
  /\ withDockerRan
  /\ result = ErrNoMatchingEnd

\* C14: a SAVE IMAGE, not skipped, whose options decode to no image name, no
\* cache hint, no cache source and no push option, with push-only mode off,
\* makes no converter call, latches no error and leaves push-only mode off.
C14_SaveImageNoOp ==
  [][(/\ exited' = "SaveImage"
      /\ ~pushOnlyAllowed
      /\ ~Parse(stmtWords, SaveImageFlags).failed
      /\ Args(stmtWords, Parse(stmtWords, SaveImageFlags)) = <<>>
      /\ ~BoolFlag(Parse(stmtWords, SaveImageFlags).set, F_cache_hint)
      /\ SliceFlag(Parse(stmtWords, SaveImageFlags).set, F_cache_from) = <<>>
      /\ ~BoolFlag(Parse(stmtWords, SaveImageFlags).set, F_push))
       => (calls' = <<>> /\ err' = nil /\ ~pushOnlyAllowed')]_vars

\* C14: a SAVE IMAGE without words has gone by
C14_Witness ==
  /\ exited = "SaveImage"
  /\ stmtWords = <<>>
  /\ calls = <<>>
  /\ err = nil
  /\ ~pushOnlyAllowed

\* C18: with an error latched, no callback changes the current target, the
\* found mark, the error, push-only mode, the open block, the mark of its
\* RUN or the fields of the statement: target headers included.
C18_NoOpAfterError ==
  [][err # nil
       => UNCHANGED <<currentTarget, targetFound, err, pushOnlyAllowed,
                      withDocker, withDockerRan, stmtWords, envArgKey,
                      envArgValue, labelKeys, labelValues, execMode>>]_vars

\* C19: a RUN, not skipped, whose words decode to options only, with no
\* word left for the command, latches an error and makes no converter call.
C19_RunNeedsCommand ==
  [][(/\ exited' = "Run"
      /\ ~Parse(stmtWords, RunFlags).failed
      /\ Args(stmtWords, Parse(stmtWords, RunFlags)) = <<>>)
       => (err' # nil /\ calls' = <<>>)]_vars

\* C15: a SAVE ARTIFACT, not skipped and with push-only mode off, whose
\* options decode and leave the words t1..tn makes one save-artifact call:
\* of (t1, "./", "") for n = 1, of (t1, t2, "") for n = 2, of (t1, "./", t4)
\* for n = 4 with t2 t3 = AS LOCAL, of (t1, t2, t5) for n = 5 with
\* t3 t4 = AS LOCAL; an error is latched exactly if the call fails. For every
\* other n and every other place of AS LOCAL it latches an error and makes
\* no call.
C15_SaveArtifactShapes ==
  [][(/\ exited' = "SaveArtifact"
      /\ ~pushOnlyAllowed
      /\ ~Parse(stmtWords, SaveArtifactFlags).failed)
       => LET t == Args(stmtWords, Parse(stmtWords, SaveArtifactFlags))
              n == Len(t)
              here == <<".", "/">>
              made(from, to, local) ==
                /\ Len(calls') = 1
                /\ calls'[1].op = "SaveArtifact"
                /\ SubSeq(calls'[1].args, 1, 3) = <<from, to, local>>
                /\ err' = nil <=> calls'[1].ok
          IN IF n = 1 THEN made(t[1], here, <<>>)
             ELSE IF n = 2 THEN made(t[1], t[2], <<>>)
             ELSE IF n = 4 /\ t[2] = <<"A", "S">> /\ t[3] = <<"L", "O", "C", "A", "L">>
             THEN made(t[1], here, t[4])
             ELSE IF n = 5 /\ t[3] = <<"A", "S">> /\ t[4] = <<"L", "O", "C", "A", "L">>
             THEN made(t[1], t[2], t[5])
             ELSE err' # nil /\ calls' = <<>>]_vars

\* C15: a SAVE ARTIFACT of five words has made its call
C15_Witness ==
  /\ exited = "SaveArtifact"
  /\ Len(stmtWords) = 5
  /\ err = nil
  /\ Len(calls) = 1
  /\ calls[1].args[2] = stmtWords[2]
  /\ calls[1].args[3] = stmtWords[5]

\* C16: a COPY, not skipped and not refused for its options, whose n >= 1
\* sources are all artifact references makes artifact-copy calls only, one
\* for each source in the order of the sources until a call fails (n calls
\* when none fails), each with the value of the if-exists option as its
\* last argument; a COPY whose sources are all plain, without build
\* arguments, makes one plain-copy call that carries all the sources, in
\* order, and nothing else.
C16_CopyCalls ==
  [][(/\ exited' = "Copy"
      /\ ~pushOnlyAllowed
      /\ ~Parse(stmtWords, CopyFlags).failed
      /\ Len(Args(stmtWords, Parse(stmtWords, CopyFlags))) >= 2
      /\ StringFlag(Parse(stmtWords, CopyFlags).set, F_from, <<>>) = <<>>
      /\ ~PlatformBad(Parse(stmtWords, CopyFlags).set))
       => LET set == Parse(stmtWords, CopyFlags).set
              args == Args(stmtWords, Parse(stmtWords, CopyFlags))
              n == Len(args) - 1
              isArtifact(i) == ArtifactOK(expandRef(args[i]))
          IN /\ (\A i \in 1..n : isArtifact(i))
                  => /\ Len(calls') <= n
                     /\ \A i \in 1..Len(calls') :
                          /\ calls'[i].op = "CopyArtifact"
                          /\ calls'[i].args[1] = ArtifactString(expandRef(args[i]))
                          /\ calls'[i].args[9] = BoolFlag(set, F_if_exists)
                     /\ AllOK(calls') => (Len(calls') = n /\ err' = nil)
             /\ ((\A i \in 1..n : ~isArtifact(i)) /\ SliceFlag(set, F_build_arg) = <<>>)
                  => /\ Len(calls') = 1
                     /\ calls'[1].op = "CopyClassical"
                     /\ calls'[1].args[1] = [i \in 1..n |-> expandLit(args[i])]
                     /\ err' = nil]_vars

\* C16: a COPY of two different artifacts has made its two calls
C16_Witness ==
  /\ exited = "Copy"
  /\ err = nil
  /\ Len(calls) = 2
  /\ calls[1].op = "CopyArtifact"
  /\ calls[2].op = "CopyArtifact"
  /\ calls[1].args[1] # calls[2].args[1]

\* The texts of a word between its backslash-'+' pairs, in order
RECURSIVE Pieces(_)
Pieces(word) ==
  LET i == Index(word, BackslashPlus) IN
  IF i = 0 THEN <<word>>
  ELSE <<SubSeq(word, 1, i - 1)>> \o Pieces(From0(word, i + 1))

\* The substitution made in every text between the backslash-'+' pairs of
\* a word, the pairs themselves written as the marker
Substituted(word, marker) == Join(MapSeq(Pieces(word), ExpandArgs), marker)

\* C17: a word that holds a '+' behind a backslash reaches the converter,
\* from a callback that expands it in reference-preserving mode (BUILD),
\* with every such pair still a backslash and a '+' at the place it had
\* between the substituted texts around it; from a callback that expands it
\* in literal mode (WORKDIR), with no '+' behind a backslash left, and as
\* the text of the reference-preserving mode with each pair unescaped.
C17_MarkerKept ==
  [][(/\ exited' \in {"Build", "Workdir"}
      /\ ~pushOnlyAllowed
      /\ Len(stmtWords) = 1
      /\ Index(stmtWords[1], BackslashPlus) # 0)
       => /\ Len(calls') = 1
          /\ LET given == calls'[1].args[1]
                 kept == Substituted(stmtWords[1], BackslashPlus)
             IN IF exited' = "Build" THEN given = kept
                ELSE /\ Index(given, BackslashPlus) = 0
                     /\ given = unescapeSlashPlus(kept)
                     /\ given = unescapeSlashPlus(expandRef(stmtWords[1]))]_vars

\* C20: a RUN that reaches the converter passes a shell-mode flag that is
\* true exactly when the word list was not given as a JSON array, and
\* passes its command words as they are in shell mode and literal-expanded
\* in exec mode.
C20_RunModes ==
  [][(/\ exited' = "Run"
      /\ Len(calls') = 1
      /\ calls'[1].op = "Run")
       => LET command == Args(stmtWords, Parse(stmtWords, RunFlags))
          IN /\ calls'[1].args[7] = ~execMode
             /\ calls'[1].args[1] = IF execMode THEN MapSeq(command, expandLit)
                                    ELSE command]_vars

\* The flag set of the statements that take a platform option, by kind
PlatformStatements == {"From", "FromDockerfile", "Copy", "Build", "WithDocker"}
FlagsOfKind(kind) ==
  CASE kind = "From" -> FromFlags
    [] kind = "FromDockerfile" -> FromDockerfileFlags
    [] kind = "Copy" -> CopyFlags
    [] kind = "Build" -> BuildFlags
    [] OTHER -> WithDockerFlags

\* The platform option values a statement of the kind uses, as written:
\* all of them for BUILD, the last one (when it is not empty) for the others
PlatformOptions(kind, words) ==
  LET given == SliceFlag(Parse(words, FlagsOfKind(kind)).set, F_platform) IN
  IF kind = "Build" THEN given
  ELSE IF given = <<>> \/ given[Len(given)] = <<>> THEN <<>>
  ELSE <<given[Len(given)]>>

\* The place of the platform among the arguments of a converter call
PlatformArg(op) ==
  CASE op = "FromDockerfile" -> 4
    [] op = "CopyArtifact" -> 3
    [] OTHER -> 2

\* C21: FROM, FROM DOCKERFILE, COPY, BUILD and WITH DOCKER parse the
\* literal-expanded value of a platform option: the statement is refused for
\* its platform only when an expanded value is no platform, and the platform
\* a call carries is the one parsed from the expanded value.
C21_PlatformExpanded ==
  [][(exited' \in PlatformStatements /\ err = nil)
       => LET given == PlatformOptions(exited', stmtWords)
              expanded == MapSeq(given, expandLit)
          IN /\ err' = "parse platform"
                  => \E i \in 1..Len(expanded) : ~PlatformOK(expanded[i])
             /\ \A i \in 1..Len(calls') :
                  calls'[i].op \in {"From", "FromDockerfile", "CopyArtifact", "Build"}
                    => calls'[i].args[PlatformArg(calls'[i].op)]
                         = IF expanded = <<>> THEN <<>>
                           ELSE IF exited' = "Build" THEN <<expanded[i]>>
                           ELSE <<expanded[1]>>]_vars

\* C22: a BUILD that is not skipped, in a target not in push-only mode, with
\* one target reference and k >= 0 platform options that are platforms as
\* written, calls Build for the platforms in the order given, or once without
\* a platform when k = 0, each call with the expanded target reference and
\* the expanded build arguments; the calls stop at the first one that fails,
\* which latches an error; when none fails there are max(1, k) calls and no
\* error.
C22_BuildCalls ==
  [][(/\ exited' = "Build"
      /\ ~pushOnlyAllowed
      /\ ~Parse(stmtWords, BuildFlags).failed
      /\ Len(Args(stmtWords, Parse(stmtWords, BuildFlags))) = 1
      /\ \A i \in 1..Len(PlatformOptions("Build", stmtWords)) :
           /\ PlatformOK(PlatformOptions("Build", stmtWords)[i])
           /\ expandLit(PlatformOptions("Build", stmtWords)[i])
                = PlatformOptions("Build", stmtWords)[i])
       => LET set == Parse(stmtWords, BuildFlags).set
              target == Args(stmtWords, Parse(stmtWords, BuildFlags))[1]
              given == PlatformOptions("Build", stmtWords)
              k == Len(given)
              n == IF k = 0 THEN 1 ELSE k
              made == Len(calls')
          IN /\ made \in 1..n
             /\ \A i \in 1..made :
                  /\ calls'[i].op = "Build"
                  /\ calls'[i].args[1] = expandRef(target)
                  /\ calls'[i].args[2] = IF k = 0 THEN <<>> ELSE <<given[i]>>
                  /\ calls'[i].args[3] = MapSeq(SliceFlag(set, F_build_arg), expandRef)
                  /\ i < made => calls'[i].ok
             /\ made < n => ~calls'[made].ok
             /\ calls'[made].ok <=> err' = nil]_vars

\* C22: a BUILD for two different platforms has made its two calls
C22_Witness ==
  /\ exited = "Build"
  /\ err = nil
  /\ Len(calls) = 2
  /\ calls[1].args[2] # calls[2].args[2]

\* C23: a RUN that is not skipped while a WITH DOCKER block is open never
\* calls Run. With the push option it latches an error, makes no call and
\* leaves withDockerRan and pushOnlyAllowed as they were. Without it, when it
\* is the block's first RUN outside push-only mode, it makes the one call
\* WithDockerRun with its command and with the block's options, in which the
\* mounts, the secrets, the shell mode and the entrypoint flag are those of
\* this RUN.
C23_RunInBlock ==
  [][(/\ exited' = "Run"
      /\ withDocker # <<>>
      /\ stmtWords # <<>>
      /\ ~Parse(stmtWords, RunFlags).failed)
       => LET set == Parse(stmtWords, RunFlags).set
              command == Args(stmtWords, Parse(stmtWords, RunFlags))
              merged == [withDocker[1] EXCEPT
                           !.Mounts = MapSeq(SliceFlag(set, F_mount), expandLit),
                           !.Secrets = MapSeq(SliceFlag(set, F_secret), expandRef),
                           !.WithShell = ~execMode,
                           !.WithEntrypoint = BoolFlag(set, F_entrypoint)]
          IN /\ \A i \in 1..Len(calls') : calls'[i].op # "Run"
             /\ IF BoolFlag(set, F_push)
                THEN /\ err' # nil
                     /\ calls' = <<>>
                     /\ withDockerRan' = withDockerRan
                     /\ pushOnlyAllowed' = pushOnlyAllowed
                ELSE (~withDockerRan /\ ~pushOnlyAllowed)
                       => /\ Len(calls') = 1
                          /\ calls'[1].op = "WithDockerRun"
                          /\ calls'[1].args = <<command, merged>>]_vars

\* C23: a RUN with a mount has run inside a block
C23_Witness ==
  /\ exited = "Run"
  /\ Len(calls) = 1
  /\ calls[1].op = "WithDockerRun"
  /\ calls[1].args[2].Mounts # <<>>

\* C24: pushOnlyAllowed turns from false to true only in the exit callback
\* of a RUN or a SAVE IMAGE that carries the push option and whose call to
\* the converter succeeded; a RUN or SAVE IMAGE that latches an error, in
\* its own tests or for a call that failed, leaves pushOnlyAllowed as it was.
C24_PushOnlyOnSuccess ==
  [][/\ (~pushOnlyAllowed /\ pushOnlyAllowed')
          => /\ exited' \in {"Run", "SaveImage"}
             /\ BoolFlag(Parse(stmtWords,
                               IF exited' = "Run" THEN RunFlags ELSE SaveImageFlags).set,
                         F_push)
             /\ Len(calls') = 1
             /\ calls'[1].op = exited'
             /\ calls'[1].ok
             /\ err' = nil
     /\ (exited' \in {"Run", "SaveImage"} /\ err' # nil)
          => pushOnlyAllowed' = pushOnlyAllowed]_vars

\* C24: a SAVE IMAGE with the push option and an image name has failed in
\* its call, and push-only mode is off
C24_Witness ==
  /\ exited = "SaveImage"
  /\ Len(calls) = 1
  /\ calls[1].args[2]
  /\ ~calls[1].ok
  /\ err # nil
  /\ ~pushOnlyAllowed

\* C25: a COPY, not skipped and not refused for its options, whose sources
\* hold an artifact reference and a plain path latches an error and makes no
\* call; so does a COPY whose sources are all plain paths and that carries a
\* build argument.
C25_CopyRefused ==
  [][(/\ exited' = "Copy"
      /\ ~pushOnlyAllowed
      /\ ~Parse(stmtWords, CopyFlags).failed
      /\ Len(Args(stmtWords, Parse(stmtWords, CopyFlags))) >= 2
      /\ StringFlag(Parse(stmtWords, CopyFlags).set, F_from, <<>>) = <<>>
      /\ ~PlatformBad(Parse(stmtWords, CopyFlags).set))
       => LET set == Parse(stmtWords, CopyFlags).set
              args == Args(stmtWords, Parse(stmtWords, CopyFlags))
              sources == 1..(Len(args) - 1)
              isArtifact(i) == ArtifactOK(expandRef(args[i]))
              mixed == (\E i \in sources : isArtifact(i)) /\ (\E i \in sources : ~isArtifact(i))
              plainWithArgs == /\ \A i \in sources : ~isArtifact(i)
                               /\ SliceFlag(set, F_build_arg) # <<>>
          IN (mixed \/ plainWithArgs) => (err' # nil /\ calls' = <<>>)]_vars

\* C25: a COPY of an artifact and a plain path has been refused
C25_Witness ==
  /\ exited = "Copy"
  /\ err # nil
  /\ calls = <<>>
  /\ Len(stmtWords) = 3
  /\ ArtifactOK(stmtWords[1])
  /\ ~ArtifactOK(stmtWords[2])

\* C26: in every reachable state withDockerRan is true only while a WITH
\* DOCKER block is open, so that a block never opens with its RUN marked as
\* run already.
C26_RanOnlyInBlock == withDockerRan => withDocker # <<>>

\* C26: the RUN of an open block has run
C26_Witness ==
  /\ withDockerRan
  /\ withDocker # <<>>
  /\ exited = "Run"
  /\ err = nil

====
